---- MODULE Spec2Model ----
(***************************************************************************)
(* Model of the change-detection pipeline of src/index.js.  The file holds *)
(* two variants of the program: the axios/cheerio variant (lines 1-162,    *)
(* recursive retry, Promise.all) and the playwright variant (lines         *)
(* 164-348, loop retry, Promise.allSettled).  `variant` selects which one  *)
(* a behaviour runs.                                                       *)
(***************************************************************************)
EXTENDS Integers, Sequences, FiniteSets, TLC

VARIABLES variant, store, urls, task, updates, newUrls, errors, mainPc, sent, calls

vars == <<variant, store, urls, task, updates, newUrls, errors, mainPc, sent, calls>>

(***************************************************************************)
(* Bounds of the model.                                                    *)
(***************************************************************************)
MaxRetries == 3
MaxUrls == 2
MaxCalls == 2

(***************************************************************************)
(* Program constants.                                                      *)
(***************************************************************************)
AxiosRetries == 3
PlaywrightRetries == 5

Axios == "axios"
Playwright == "playwright"
Variants == {Axios, Playwright}

(***************************************************************************)
(* Data.  A URL is a sequence of characters.  A page content is the        *)
(* sequence of its line tokens, each token a line with its terminating     *)
(* newline when it has one (the tokens diffLines compares); the empty      *)
(* string is the empty sequence.                                           *)
(***************************************************************************)
Urls == {<<"a">>, <<"a", "/">>}
Titles == {"T", "T2"}
Empty == <<>>
HelloWorld == <<"Hello\n", "World">>
HelloWorldFoo == <<"Hello\n", "World\n", "Foo">>
Contents == {Empty, HelloWorld, HelloWorldFoo}
\* What a successful fetch may return: every content, and one content under
\* two titles.
Snapshots ==
    {[content |-> c, title |-> "T"] : c \in Contents}
        \cup {[content |-> HelloWorld, title |-> "T2"]}

contentDir == <<"contents">>

\* encodeURIComponent: unreserved characters are kept, every other
\* character becomes its percent-encoded bytes.
EncodeChar(c) ==
    CASE c = "/" -> <<"%", "2", "F">>
      [] c = "%" -> <<"%", "2", "5">>
      [] OTHER -> <<c>>

RECURSIVE encodeURIComponent(_)
encodeURIComponent(url) ==
    IF url = <<>> THEN <<>>
    ELSE EncodeChar(Head(url)) \o encodeURIComponent(Tail(url))

lastContentFile(url) == contentDir \o <<"/">> \o encodeURIComponent(url) \o <<".txt">>

Files == {lastContentFile(u) : u \in Urls}

\* A file of the content directory: absent, or present with a content.
NoFile == [exists |-> FALSE, content |-> Empty]
FileOf(c) == [exists |-> TRUE, content |-> c]
FileStates == {NoFile} \cup {FileOf(c) : c \in Contents}
\* The files a run or a first call may find.
InitialFiles == {NoFile, FileOf(Empty), FileOf(HelloWorld)}

\* pageData: null (or undefined), or a snapshot.
Null == [ok |-> FALSE, content |-> Empty, title |-> "undefined"]
PageData(c, t) == [ok |-> TRUE, content |-> c, title |-> t]

NoResult == [set |-> FALSE, error |-> FALSE, updated |-> FALSE, isNew |-> FALSE,
             title |-> "undefined", changes |-> <<>>]
ErrorResult == [set |-> TRUE, error |-> TRUE, updated |-> FALSE, isNew |-> FALSE,
                title |-> "undefined", changes |-> <<>>]

DefaultRetries == IF variant = Axios THEN AxiosRetries ELSE PlaywrightRetries

\* A call of checkIfNewOrUpdated(url) whose fetchPageContent(url, retries)
\* is about to make its first attempt.  log is the history of the attempts
\* made so far (TRUE: the attempt succeeded); before is the baseline file as
\* it was when the call was made, readDone and wrote tell whether the call
\* has read and has written the baseline file.
NewTask(url, r) ==
    [pc |-> "fetch", url |-> url, maxRetries |-> r, retries |-> r, attempt |-> 0,
     log |-> <<>>, pageData |-> Null, lastContent |-> Empty, isNew |-> FALSE,
     before |-> store[lastContentFile(url)], readDone |-> FALSE, wrote |-> FALSE,
     result |-> NoResult]

(***************************************************************************)
(* fetchPageContent.                                                       *)
(***************************************************************************)
\* A continuation without the `if (!pageData) return` check.
AfterFetchWithoutCheck(t, data) == [t EXCEPT !.pageData = data, !.pc = "read"]

\* A continuation that goes to the write without reading the baseline.
AfterFetchSkipsRead(t, data) ==
    IF data.ok
    THEN [t EXCEPT !.pageData = data, !.pc = "write"]
    ELSE [t EXCEPT !.pageData = data, !.pc = "ret", !.result = ErrorResult]

\* checkIfNewOrUpdated's continuation of `await fetchPageContent(url)`.
AfterFetch(t, data) ==
    IF data.ok
    THEN [t EXCEPT !.pageData = data, !.pc = "read"]
    ELSE [t EXCEPT !.pageData = data, !.pc = "ret", !.result = ErrorResult]

\* The axios variant: a failed attempt calls fetchPageContent again with
\* retries - 1 while retries > 0, and returns null otherwise.
FetchFailAxios(t) ==
    IF t.retries > 0
    THEN [t EXCEPT !.retries = t.retries - 1, !.log = Append(t.log, FALSE)]
    ELSE AfterFetch([t EXCEPT !.log = Append(t.log, FALSE)], Null)

\* The playwright variant: for (attempt = 0; attempt < retries; attempt++),
\* a failed attempt returns null when attempt === retries - 1.
FetchFailPlaywright(t) ==
    IF t.attempt = t.retries - 1
    THEN AfterFetch([t EXCEPT !.log = Append(t.log, FALSE)], Null)
    ELSE [t EXCEPT !.attempt = t.attempt + 1, !.log = Append(t.log, FALSE)]

FetchFail(t) ==
    IF variant = Axios THEN FetchFailAxios(t) ELSE FetchFailPlaywright(t)

FetchSuccess(t, snap) ==
    AfterFetch([t EXCEPT !.log = Append(t.log, TRUE)], PageData(snap.content, snap.title))

\* The loop condition of the playwright variant.
CanAttempt(t) ==
    variant = Playwright => t.attempt < t.retries

\* One attempt: axios.get / page.goto succeeds with a snapshot, or throws.
FetchAttempt(i) ==
    /\ i \in DOMAIN task
    /\ task[i].pc = "fetch"
    /\ CanAttempt(task[i])
    /\ \/ \E snap \in Snapshots : task' = [task EXCEPT ![i] = FetchSuccess(task[i], snap)]
       \/ task' = [task EXCEPT ![i] = FetchFail(task[i])]
    /\ UNCHANGED <<variant, store, urls, updates, newUrls, errors, mainPc, sent, calls>>

\* The playwright loop called with retries = 0: the body never runs and the
\* function returns undefined.
FetchLoopExit(i) ==
    /\ i \in DOMAIN task
    /\ task[i].pc = "fetch"
    /\ ~CanAttempt(task[i])
    /\ task' = [task EXCEPT ![i] = AfterFetch(task[i], Null)]
    /\ UNCHANGED <<variant, store, urls, updates, newUrls, errors, mainPc, sent, calls>>

(***************************************************************************)
(* The fetcher alone: fetchPageContent(url, retries) for every retries     *)
(* argument of 0..MaxRetries.                                              *)
(***************************************************************************)
InitFetch ==
    /\ variant \in Variants
    /\ store = [f \in Files |-> NoFile]
    /\ \E u \in Urls, r \in 0..MaxRetries :
          /\ urls = <<u>>
          /\ task = <<NewTask(u, r)>>
    /\ updates = <<>>
    /\ newUrls = <<>>
    /\ errors = <<>>
    /\ mainPc = "fetcher"
    /\ sent = <<>>
    /\ calls = <<>>

NextFetch == FetchAttempt(1) \/ FetchLoopExit(1)

SpecFetch == InitFetch /\ [][NextFetch]_vars

(***************************************************************************)
(* diffLines of the diff package: a longest-common-subsequence diff of the *)
(* line tokens, as a sequence of change objects; the tokens of a run of    *)
(* removed, added or common lines form the value of one change object.     *)
(***************************************************************************)
Max(a, b) == IF a >= b THEN a ELSE b

RECURSIVE LcsLen(_, _)
LcsLen(old, new) ==
    IF old = <<>> \/ new = <<>> THEN 0
    ELSE IF Head(old) = Head(new) THEN 1 + LcsLen(Tail(old), Tail(new))
    ELSE Max(LcsLen(Tail(old), new), LcsLen(old, Tail(new)))

Change(kind, token) ==
    [value |-> <<token>>, added |-> kind = "added", removed |-> kind = "removed"]

\* The edit script, one change object per token.
RECURSIVE EditScript(_, _)
EditScript(old, new) ==
    IF old = <<>> /\ new = <<>> THEN <<>>
    ELSE IF new = <<>> THEN <<Change("removed", Head(old))>> \o EditScript(Tail(old), new)
    ELSE IF old = <<>> THEN <<Change("added", Head(new))>> \o EditScript(old, Tail(new))
    ELSE IF Head(old) = Head(new)
         THEN <<Change("common", Head(old))>> \o EditScript(Tail(old), Tail(new))
    ELSE IF LcsLen(Tail(old), new) >= LcsLen(old, Tail(new))
         THEN <<Change("removed", Head(old))>> \o EditScript(Tail(old), new)
    ELSE <<Change("added", Head(new))>> \o EditScript(old, Tail(new))

\* Consecutive change objects of the same kind are merged into one.
RECURSIVE MergeChanges(_)
MergeChanges(script) ==
    IF Len(script) <= 1 THEN script
    ELSE LET rest == MergeChanges(Tail(script))
             c == Head(script)
         IN IF c.added = Head(rest).added /\ c.removed = Head(rest).removed
            THEN <<[Head(rest) EXCEPT !.value = c.value \o @]>> \o Tail(rest)
            ELSE <<c>> \o rest

diffLines(old, new) == MergeChanges(EditScript(old, new))

\* A filter that keeps every change object.
KeepsEveryChange(change) == TRUE

\* .filter(change => change.added || change.removed)
AddedOrRemoved(change) == change.added \/ change.removed

Changes(old, new) == SelectSeq(diffLines(old, new), AddedOrRemoved)

(***************************************************************************)
(* checkIfNewOrUpdated, after its fetch.                                   *)
(***************************************************************************)
\* A comparison that also takes a title other than "T" for a change.
CompareWithTitle(t, last, new) ==
    IF t.pageData.content # last \/ t.pageData.title # "T"
    THEN [t EXCEPT !.lastContent = last, !.isNew = new, !.readDone = TRUE, !.pc = "write"]
    ELSE [t EXCEPT !.lastContent = last, !.isNew = new, !.readDone = TRUE, !.pc = "ret",
                   !.result = [NoResult EXCEPT !.set = TRUE, !.isNew = new]]

\* A comparison that takes every content for a changed one.
CompareAlwaysDiffers(t, last, new) ==
    [t EXCEPT !.lastContent = last, !.isNew = new, !.readDone = TRUE, !.pc = "write"]

\* The comparison newContent !== lastContent that follows the read: the
\* call goes on to write the file, or returns { updated: false, isNew }.
Compare(t, last, new) ==
    IF t.pageData.content # last
    THEN [t EXCEPT !.lastContent = last, !.isNew = new, !.readDone = TRUE, !.pc = "write"]
    ELSE [t EXCEPT !.lastContent = last, !.isNew = new, !.readDone = TRUE, !.pc = "ret",
                   !.result = [NoResult EXCEPT !.set = TRUE, !.isNew = new]]

\* fs.readFile(lastContentFile): the content of the file; ENOENT when there
\* is no such file (isNew = true, lastContent stays ''); any other error
\* is thrown again.
ReadBaseline(i) ==
    /\ i \in DOMAIN task
    /\ task[i].pc = "read"
    /\ LET t == task[i]
           file == store[lastContentFile(t.url)]
       IN \/ task' = [task EXCEPT ![i] =
                        IF file.exists THEN Compare(t, file.content, FALSE)
                        ELSE Compare(t, Empty, TRUE)]
          \/ task' = [task EXCEPT ![i] = [t EXCEPT !.readDone = TRUE, !.pc = "thrown"]]
    /\ UNCHANGED <<variant, store, urls, updates, newUrls, errors, mainPc, sent, calls>>

\* The result of a call that has written the file.
UpdatedResult(t) ==
    [set |-> TRUE, error |-> FALSE, updated |-> TRUE, isNew |-> t.isNew,
     title |-> t.pageData.title, changes |-> Changes(t.lastContent, t.pageData.content)]

\* A write of the content that was read instead of the one that was fetched.
WrittenStale(t) == FileOf(t.lastContent)

\* What fs.writeFile(lastContentFile, newContent) leaves in the file.
Written(t) == FileOf(t.pageData.content)

\* fs.writeFile succeeds and the call returns { updated: true, ... }, or it
\* throws (the file is left as it was) and so does the call.
WriteBaseline(i) ==
    /\ i \in DOMAIN task
    /\ task[i].pc = "write"
    /\ LET t == task[i]
       IN \/ /\ store' = [store EXCEPT ![lastContentFile(t.url)] = Written(t)]
             /\ task' = [task EXCEPT ![i] =
                           [t EXCEPT !.wrote = TRUE, !.pc = "ret", !.result = UpdatedResult(t)]]
          \/ /\ task' = [task EXCEPT ![i] = [t EXCEPT !.pc = "thrown"]]
             /\ UNCHANGED store
    /\ UNCHANGED <<variant, urls, updates, newUrls, errors, mainPc, sent, calls>>

(***************************************************************************)
(* checkIfNewOrUpdated alone: a caller that makes up to MaxCalls calls,    *)
(* one after the other, and keeps what the last two calls did.             *)
(***************************************************************************)
InitDetect ==
    /\ variant \in Variants
    /\ store \in [Files -> InitialFiles]
    /\ urls = <<>>
    /\ task = <<>>
    /\ updates = <<>>
    /\ newUrls = <<>>
    /\ errors = <<>>
    /\ mainPc = "caller"
    /\ sent = <<>>
    /\ calls = <<>>

CallsMade == IF calls = <<>> THEN 0 ELSE calls[Len(calls)].n

DetectCall(u) ==
    /\ task = <<>>
    /\ CallsMade < MaxCalls
    /\ task' = <<NewTask(u, DefaultRetries)>>
    /\ UNCHANGED <<variant, store, urls, updates, newUrls, errors, mainPc, sent, calls>>

CallRecord(t) ==
    [n |-> CallsMade + 1, url |-> t.url, threw |-> t.pc = "thrown", fetched |-> t.pageData,
     before |-> t.before, after |-> store[lastContentFile(t.url)], wrote |-> t.wrote,
     result |-> t.result]

LastTwo(s) == IF Len(s) <= 2 THEN s ELSE SubSeq(s, Len(s) - 1, Len(s))

DetectReturn ==
    /\ task # <<>>
    /\ task[1].pc \in {"ret", "thrown"}
    /\ calls' = LastTwo(Append(calls, CallRecord(task[1])))
    /\ task' = <<>>
    /\ UNCHANGED <<variant, store, urls, updates, newUrls, errors, mainPc, sent>>

NextDetect ==
    \/ \E u \in Urls : DetectCall(u)
    \/ FetchAttempt(1)
    \/ ReadBaseline(1)
    \/ WriteBaseline(1)
    \/ DetectReturn

SpecDetect == InitDetect /\ [][NextDetect]_vars

(***************************************************************************)
(* checkForUpdates: one run over the URLs of the sheet.  mainPc is where   *)
(* checkForUpdates stands: "start", "await" (at Promise.all or             *)
(* Promise.allSettled), "notifyUpdates", "notifyNew", "notifyErrors",      *)
(* "completed" (resolved), or rejected: "aborted" (getUrlsFromSheet        *)
(* threw), "rejected" (Promise.all rejected), "notifyFailed" (a            *)
(* notification call threw).                                               *)
(***************************************************************************)
UrlLists == UNION {[1..n -> Urls] : n \in 1..MaxUrls}

Init ==
    /\ variant \in Variants
    /\ store \in [Files -> InitialFiles]
    /\ urls = <<>>
    /\ task = <<>>
    /\ updates = <<>>
    /\ newUrls = <<>>
    /\ errors = <<>>
    /\ mainPc = "start"
    /\ sent = <<>>
    /\ calls = <<>>

\* A start that goes on to the tasks although getUrlsFromSheet threw.
GetUrlsFromSheetIgnoresError ==
    /\ mainPc = "start"
    /\ \E list \in UrlLists :
          /\ urls' = list
          /\ task' = [i \in 1..Len(list) |-> NewTask(list[i], DefaultRetries)]
    /\ mainPc' \in {"await", "aborted"}
    /\ UNCHANGED <<variant, store, updates, newUrls, errors, sent, calls>>

\* ensureContentDirExists (which never throws) and getUrlsFromSheet, which
\* returns the URLs of column A or throws; then urls.map starts one call of
\* checkIfNewOrUpdated per element of the list, duplicates included.  (In the
\* playwright variant the browser launch, context.newPage and page.close
\* are taken to succeed.)
GetUrlsFromSheet ==
    /\ mainPc = "start"
    /\ \/ \E list \in UrlLists :
             /\ urls' = list
             /\ task' = [i \in 1..Len(list) |-> NewTask(list[i], DefaultRetries)]
             /\ mainPc' = "await"
       \/ /\ mainPc' = "aborted"
          /\ UNCHANGED <<urls, task>>
    /\ UNCHANGED <<variant, store, updates, newUrls, errors, sent, calls>>

\* A callback that forgets the error results.
BucketWithoutErrors(result) ==
    IF result.error THEN "none"
    ELSE IF result.isNew THEN "newUrls"
    ELSE IF result.updated THEN "updates"
    ELSE "none"

\* The bucket the map callback pushes a result to.
Bucket(result) ==
    IF result.error THEN "errors"
    ELSE IF result.isNew THEN "newUrls"
    ELSE IF result.updated THEN "updates"
    ELSE "none"

\* The map callback after `await checkIfNewOrUpdated(url)`.
Collect(i) ==
    /\ i \in DOMAIN task
    /\ task[i].pc = "ret"
    /\ LET r == task[i].result
           url == task[i].url
           b == Bucket(r)
       IN /\ errors' = IF b = "errors" THEN Append(errors, url) ELSE errors
          /\ newUrls' = IF b = "newUrls"
                        THEN Append(newUrls, [url |-> url, title |-> r.title])
                        ELSE newUrls
          /\ updates' = IF b = "updates"
                        THEN Append(updates, [url |-> url, title |-> r.title,
                                              changes |-> r.changes])
                        ELSE updates
    /\ task' = [task EXCEPT ![i].pc = "done"]
    /\ UNCHANGED <<variant, store, urls, mainPc, sent, calls>>

AllDone == \A i \in DOMAIN task : task[i].pc = "done"
AllSettled == \A i \in DOMAIN task : task[i].pc \in {"done", "thrown"}
SomeThrown == \E i \in DOMAIN task : task[i].pc = "thrown"

\* An await that waits for no callback.
TasksNotAwaited == TRUE

\* Promise.all (axios variant) resolves when every callback has resolved;
\* Promise.allSettled (playwright variant) when every callback has settled.
TasksAwaited == IF variant = Axios THEN AllDone ELSE AllSettled

AwaitResolve ==
    /\ mainPc = "await"
    /\ TasksAwaited
    /\ mainPc' = "notifyUpdates"
    /\ UNCHANGED <<variant, store, urls, task, updates, newUrls, errors, sent, calls>>

\* Promise.all rejects as soon as one callback has rejected; the other
\* callbacks go on.
AwaitReject ==
    /\ mainPc = "await"
    /\ variant = Axios
    /\ SomeThrown
    /\ mainPc' = "rejected"
    /\ UNCHANGED <<variant, store, urls, task, updates, newUrls, errors, sent, calls>>

\* send...Notification(bucket): no call for an empty bucket; otherwise one
\* POST of the message built from the bucket, which may throw.
Send(kind, bucket, next) ==
    \/ /\ bucket = <<>>
       /\ mainPc' = next
       /\ UNCHANGED sent
    \/ /\ bucket # <<>>
       /\ \/ /\ sent' = Append(sent, [kind |-> kind, items |-> bucket])
             /\ mainPc' = next
          \/ /\ mainPc' = "notifyFailed"
             /\ UNCHANGED sent

sendUpdateNotification ==
    /\ mainPc = "notifyUpdates"
    /\ Send("update", updates, "notifyNew")
    /\ UNCHANGED <<variant, store, urls, task, updates, newUrls, errors, calls>>

sendNewUrlNotification ==
    /\ mainPc = "notifyNew"
    /\ Send("new", newUrls, "notifyErrors")
    /\ UNCHANGED <<variant, store, urls, task, updates, newUrls, errors, calls>>

sendErrorNotification ==
    /\ mainPc = "notifyErrors"
    /\ Send("error", errors, "completed")
    /\ UNCHANGED <<variant, store, urls, task, updates, newUrls, errors, calls>>

Next ==
    \/ GetUrlsFromSheet
    \/ \E i \in 1..MaxUrls : FetchAttempt(i)
    \/ \E i \in 1..MaxUrls : ReadBaseline(i)
    \/ \E i \in 1..MaxUrls : WriteBaseline(i)
    \/ \E i \in 1..MaxUrls : Collect(i)
    \/ AwaitResolve
    \/ AwaitReject
    \/ sendUpdateNotification
    \/ sendNewUrlNotification
    \/ sendErrorNotification

Spec == Init /\ [][Next]_vars

\* The event loop runs a continuation once the operation it awaits has
\* returned or failed, and every operation does: a step that can be taken
\* is eventually taken.
FairSpec == Spec /\ WF_vars(Next)

(***************************************************************************)
(* Properties of the fetcher (checked under SpecFetch).                    *)
(***************************************************************************)
FetchReturned(t) == t.pc # "fetch"
AllFailed(log) == \A k \in 1..Len(log) : ~log[k]

\* C1: for every retries argument maxRetries, fetchPageContent makes at most
\* maxRetries + 1 attempts; it returns the snapshot of the first attempt that
\* succeeds, up to attempt maxRetries + 1, and returns failure only when all
\* maxRetries + 1 attempts have failed.
C1_RetryBound ==
    \A i \in DOMAIN task :
        LET t == task[i]
        IN /\ Len(t.log) <= t.maxRetries + 1
           /\ FetchReturned(t) =>
                 IF t.pageData.ok
                 THEN Len(t.log) >= 1 /\ t.log[Len(t.log)]
                 ELSE Len(t.log) = t.maxRetries + 1 /\ AllFailed(t.log)

\* C2: no attempt is made after a successful one (a success is the last
\* attempt and its snapshot is what is returned), and failure is returned
\* only when every attempt of the budget (the first attempt and maxRetries
\* retries) has been made and has failed.
C2_FailureOnlyAfterBudget ==
    \A i \in DOMAIN task :
        LET t == task[i]
        IN /\ \A k \in 1..Len(t.log) : t.log[k] => k = Len(t.log) /\ t.pageData.ok
           /\ (FetchReturned(t) /\ ~t.pageData.ok) =>
                 /\ AllFailed(t.log)
                 /\ Len(t.log) = t.maxRetries + 1

(***************************************************************************)
(* Properties of checkIfNewOrUpdated (checked under SpecDetect).           *)
(***************************************************************************)
\* A call that returned a result after a successful fetch.
Returned(r) == ~r.threw /\ r.fetched.ok
IsNewOutcome(r) == r.result.set /\ ~r.result.error /\ r.result.isNew
IsUpdatedOutcome(r) ==
    r.result.set /\ ~r.result.error /\ ~r.result.isNew /\ r.result.updated
IsUnchangedOutcome(r) ==
    r.result.set /\ ~r.result.error /\ ~r.result.isNew /\ ~r.result.updated

\* C3: a call for a URL that has no baseline file, whose fetch succeeds
\* with any content (the empty string included), returns the New outcome
\* with the fetched title, and the baseline file then holds exactly the
\* fetched content.
C3_NewUrlRecorded ==
    \A k \in DOMAIN calls :
        LET r == calls[k]
        IN (Returned(r) /\ ~r.before.exists) =>
              /\ IsNewOutcome(r)
              /\ r.result.title = r.fetched.title
              /\ r.after = FileOf(r.fetched.content)

\* C4: a call that returns for a URL whose baseline file exists and differs
\* from the fetched content returns Updated with the fetched title and the added and
\* removed hunks of diffLines(old, new), and the baseline file then holds
\* the fetched content.
C4_UpdatedRecorded ==
    \A k \in DOMAIN calls :
        LET r == calls[k]
        IN (Returned(r) /\ r.before.exists /\ r.before.content # r.fetched.content) =>
              /\ IsUpdatedOutcome(r)
              /\ r.result.title = r.fetched.title
              /\ r.result.changes = Changes(r.before.content, r.fetched.content)
              /\ r.after = FileOf(r.fetched.content)

C4_Witness ==
    \E k \in DOMAIN calls :
        /\ Returned(calls[k])
        /\ calls[k].before = FileOf(HelloWorld)
        /\ calls[k].fetched.content = HelloWorldFoo
        /\ IsUpdatedOutcome(calls[k])
        /\ calls[k].after = FileOf(HelloWorldFoo)

\* C5: a call that returns for a URL whose baseline file exists and equals
\* the fetched content returns Unchanged and never writes the file: the call never
\* reaches the write, and the file is the same before and after the call.
C5_UnchangedNoWrite ==
    /\ \A k \in DOMAIN calls :
          LET r == calls[k]
          IN (Returned(r) /\ r.before.exists /\ r.before.content = r.fetched.content) =>
                /\ IsUnchangedOutcome(r)
                /\ ~r.wrote
                /\ r.after = r.before
    /\ \A i \in DOMAIN task :
          LET t == task[i]
          IN (t.pageData.ok /\ t.before.exists /\ t.before.content = t.pageData.content) =>
                t.pc # "write" /\ ~t.wrote

C5_Witness ==
    \E k \in DOMAIN calls :
        /\ Returned(calls[k])
        /\ calls[k].before = FileOf(HelloWorld)
        /\ calls[k].fetched.content = HelloWorld
        /\ IsUnchangedOutcome(calls[k])
        /\ calls[k].after = FileOf(HelloWorld)

\* C6: when checkIfNewOrUpdated(url) is called twice in succession and both
\* fetches succeed with the same content, the second call returns Unchanged
\* and does not modify the baseline file.
C6_Idempotent ==
    (/\ Len(calls) = 2
     /\ calls[1].url = calls[2].url
     /\ Returned(calls[1])
     /\ Returned(calls[2])
     /\ calls[1].fetched.content = calls[2].fetched.content) =>
        /\ IsNewOutcome(calls[1]) \/ IsUpdatedOutcome(calls[1]) \/ IsUnchangedOutcome(calls[1])
        /\ IsUnchangedOutcome(calls[2])
        /\ ~calls[2].wrote
        /\ calls[2].after = calls[2].before

(***************************************************************************)
(* Properties of a run (checked under Spec).                               *)
(***************************************************************************)
\* The bucket a finished call belongs to by what it observed: its fetch
\* failed; or its read found no file; or the file it read differs from the
\* fetched content; or neither.
Expected(t) ==
    IF ~t.pageData.ok THEN "errors"
    ELSE IF t.isNew THEN "newUrls"
    ELSE IF t.lastContent # t.pageData.content THEN "updates"
    ELSE "none"

TasksOf(b) == {i \in DOMAIN task : task[i].pc = "done" /\ Expected(task[i]) = b}

InBucket(t) ==
    CASE Expected(t) = "errors" -> \E k \in DOMAIN errors : errors[k] = t.url
      [] Expected(t) = "newUrls" ->
            \E k \in DOMAIN newUrls :
                newUrls[k].url = t.url /\ newUrls[k].title = t.result.title
      [] Expected(t) = "updates" ->
            \E k \in DOMAIN updates :
                /\ updates[k].url = t.url
                /\ updates[k].title = t.pageData.title
                /\ updates[k].changes = Changes(t.lastContent, t.pageData.content)
      [] OTHER -> TRUE

Notified(kind, bucket) ==
    bucket # <<>> => \E k \in DOMAIN sent : sent[k] = [kind |-> kind, items |-> bucket]

C8_StorageFailureIsError ==
    /\ mainPc # "rejected"
    /\ mainPc \in {"notifyUpdates", "notifyNew", "notifyErrors", "completed", "notifyFailed"} =>
          \A i \in DOMAIN task :
              task[i].pc = "thrown" => \E k \in DOMAIN errors : errors[k] = task[i].url

\* C9: a URL that had no baseline file when the run started is never in the
\* updated bucket.
C9_NewNeverUpdated ==
    \A i \in DOMAIN task :
        ~task[i].before.exists =>
            \A k \in DOMAIN updates : updates[k].url # task[i].url

Occurrences(u) ==
    Cardinality({k \in DOMAIN updates : updates[k].url = u})
        + Cardinality({k \in DOMAIN newUrls : newUrls[k].url = u})
        + Cardinality({k \in DOMAIN errors : errors[k] = u})

\* C10: when all calls have finished, every URL of the list is in at most
\* one bucket and at most once in it, the bucket is the one of the outcome
\* its call returned, and a URL whose outcome is Unchanged is in no bucket.
C10_ExactlyOneOutcome ==
    AllSettled =>
        \A i \in DOMAIN task :
            /\ Occurrences(task[i].url) <= 1
            /\ task[i].pc = "done" => InBucket(task[i])
            /\ (task[i].pc = "done" /\ Expected(task[i]) = "none") =>
                  Occurrences(task[i].url) = 0

\* C11: in one run no two tasks process the same URL, so no two tasks of
\* the run read or write the same baseline file, whatever list the sheet
\* yields (a list with the same URL twice included).
C11_OneTaskPerUrl ==
    \A i, j \in DOMAIN task :
        i # j => lastContentFile(task[i].url) # lastContentFile(task[j].url)

\* C12: within one task the steps are ordered: the baseline is read only
\* after the fetch has returned a snapshot (its last attempt succeeded), it
\* is written only after the read has completed, and a task that has
\* written never reads again (it never reads what it wrote itself).
C12_StepsOrdered ==
    \A i \in DOMAIN task :
        LET t == task[i]
        IN /\ t.pc = "fetch" => ~t.readDone /\ ~t.wrote
           /\ t.pc = "read" => t.pageData.ok /\ ~t.readDone /\ ~t.wrote
           /\ t.readDone => t.pageData.ok /\ Len(t.log) >= 1 /\ t.log[Len(t.log)]
           /\ t.pc = "write" => t.readDone /\ ~t.wrote
           /\ t.wrote => t.readDone /\ t.pc \in {"ret", "done"}

\* Two tasks of one run, one that has read and written its baseline and
\* one that is about to read.
C12_Witness ==
    /\ Len(task) = 2
    /\ task[1].wrote
    /\ task[1].readDone
    /\ task[2].pc = "read"
    /\ Len(task[2].log) = 2

Rank(kind) == CASE kind = "update" -> 1 [] kind = "new" -> 2 [] kind = "error" -> 3
BucketOf(kind) ==
    CASE kind = "update" -> updates [] kind = "new" -> newUrls [] kind = "error" -> errors
Notifying == mainPc \in {"notifyUpdates", "notifyNew", "notifyErrors", "completed", "notifyFailed"}

\* C13: notifications are sent only when every task has finished, in the
\* order updated report, new-URL report, error report, at most one per kind
\* (three at most), each for a non-empty bucket and carrying that bucket;
\* a completed run has sent exactly one per non-empty bucket.
C13_NotificationsOrdered ==
    /\ (Notifying \/ sent # <<>>) => AllSettled
    /\ Len(sent) <= 3
    /\ \A k \in 1..(Len(sent) - 1) : Rank(sent[k].kind) < Rank(sent[k + 1].kind)
    /\ \A k \in DOMAIN sent :
          sent[k].items # <<>> /\ sent[k].items = BucketOf(sent[k].kind)
    /\ mainPc = "completed" =>
          \A kind \in {"update", "new", "error"} :
              BucketOf(kind) # <<>> <=> \E k \in DOMAIN sent : sent[k].kind = kind

\* A completed run with an empty bucket between two non-empty ones.
C13_Witness ==
    /\ mainPc = "completed"
    /\ updates # <<>>
    /\ newUrls = <<>>
    /\ errors # <<>>
    /\ sent = <<[kind |-> "update", items |-> updates], [kind |-> "error", items |-> errors]>>

\* C14: when getUrlsFromSheet throws the run is rejected at once: the step
\* that aborts is the first step of the run, it starts no task (so no fetch
\* attempt, no baseline read or write), sends nothing and leaves the store
\* and the buckets as they were, and nothing happens after it.
C14_AbortBeforeAnyFetch ==
    [][/\ mainPc # "aborted"
       /\ mainPc' = "aborted" =>
             /\ mainPc = "start"
             /\ task' = <<>>
             /\ urls' = <<>>
             /\ sent' = <<>>
             /\ store' = store
             /\ updates' = <<>> /\ newUrls' = <<>> /\ errors' = <<>>]_vars

C14_Witness == mainPc = "aborted" /\ task = <<>> /\ sent = <<>>

OnlyAddedOrRemoved(changes) ==
    \A k \in DOMAIN changes :
        /\ changes[k].added \/ changes[k].removed
        /\ ~(changes[k].added /\ changes[k].removed)
        /\ changes[k].value # <<>>

\* C15: the hunks of an Updated result are non-empty in number and each is
\* an added or a removed hunk, never a common one (the same holds of every
\* result with updated: true); a call whose fetched content equals the
\* baseline returns no hunks, and the filtered diff of equal contents is
\* empty.
C15_HunksAddedOrRemoved ==
    /\ \A k \in DOMAIN calls :
          LET r == calls[k]
          IN /\ (~r.threw /\ r.result.updated) =>
                   r.result.changes # <<>> /\ OnlyAddedOrRemoved(r.result.changes)
             /\ (Returned(r) /\ r.before.exists /\ r.before.content = r.fetched.content) =>
                   r.result.changes = <<>>
    /\ \A c \in Contents : Changes(c, c) = <<>>

\* "Hello\nWorld" -> "Hello\nWorld\nFoo": the common line "Hello\n" is not
\* among the hunks.
C15_Witness ==
    \E k \in DOMAIN calls :
        /\ IsUpdatedOutcome(calls[k])
        /\ calls[k].before = FileOf(HelloWorld)
        /\ calls[k].fetched.content = HelloWorldFoo
        /\ Len(calls[k].result.changes) = 2
        /\ calls[k].result.changes[1].removed
        /\ calls[k].result.changes[2].added

\* C16: the title takes no part in the outcome or in the stored record: a
\* call whose fetched content equals the baseline returns Unchanged, with no
\* title, for every fetched title; two calls that find the same baseline
\* and fetch the same content return the same outcome and hunks and leave
\* the same file, whatever their titles; a baseline file holds a content
\* only.
C16_TitleIgnored ==
    /\ \A k \in DOMAIN calls :
          LET r == calls[k]
          IN (Returned(r) /\ r.before.exists /\ r.before.content = r.fetched.content) =>
                IsUnchangedOutcome(r) /\ r.result.title = "undefined"
    /\ \A j, k \in DOMAIN calls :
          (/\ Returned(calls[j])
           /\ Returned(calls[k])
           /\ calls[j].before = calls[k].before
           /\ calls[j].fetched.content = calls[k].fetched.content) =>
              /\ calls[j].result.updated = calls[k].result.updated
              /\ calls[j].result.isNew = calls[k].result.isNew
              /\ calls[j].result.changes = calls[k].result.changes
              /\ calls[j].after = calls[k].after
    /\ \A f \in Files : store[f] \in FileStates

\* The same content fetched twice under two titles.
C16_Witness ==
    /\ Len(calls) = 2
    /\ calls[1].url = calls[2].url
    /\ calls[1].fetched = PageData(HelloWorld, "T")
    /\ calls[2].fetched = PageData(HelloWorld, "T2")
    /\ calls[2].before = FileOf(HelloWorld)
    /\ IsUnchangedOutcome(calls[2])

\* C17: a task takes no step that reads or writes a baseline file while it
\* is fetching or after its fetch has failed: each such step leaves the
\* whole store as it was, and the task has neither read nor written; a task
\* whose fetch has failed holds the error result.
C17_FailedFetchLeavesStore ==
    [][\A i \in DOMAIN task :
          /\ (i \in DOMAIN task' /\ task'[i] # task[i]
                /\ (task[i].pc = "fetch" \/ ~task[i].pageData.ok)) =>
                /\ store' = store
                /\ ~task'[i].readDone
                /\ ~task'[i].wrote
          /\ (task[i].pc # "fetch" /\ ~task[i].pageData.ok) =>
                task[i].result = ErrorResult /\ task[i].pc \in {"ret", "done"}]_vars

\* One task has failed every attempt and is in the errors bucket, while the
\* other task of the run has rewritten its own baseline.
C17_Witness ==
    /\ Len(task) = 2
    /\ task[1].pc = "done"
    /\ ~task[1].pageData.ok
    /\ Len(task[1].log) >= AxiosRetries + 1
    /\ task[1].before.exists
    /\ store[lastContentFile(task[1].url)] = task[1].before
    /\ task[2].wrote

\* checkForUpdates has resolved or rejected.
RunEnded == mainPc \in {"completed", "rejected", "notifyFailed", "aborted"}

UrlNotified(u) ==
    \E k \in DOMAIN sent :
        /\ sent[k].kind \in {"update", "new"}
        /\ \E n \in DOMAIN sent[k].items : sent[k].items[n].url = u

\* C18: when the run has ended and every task has finished, the URL of every
\* task that wrote a baseline file is in an update or new-URL notification
\* that was sent.
C18_NoChangeLost ==
    (RunEnded /\ AllSettled) =>
        \A i \in DOMAIN task : task[i].wrote => UrlNotified(task[i].url)

\* C19: once the run has ended no task of it is still in flight.
C19_NoTaskAfterEnd ==
    RunEnded => AllSettled

AttemptBudget == IF variant = Axios THEN AxiosRetries + 1 ELSE PlaywrightRetries

\* A task has returned one of the four outcomes (New, Updated, Unchanged or
\* Error) and its callback has finished.
TaskTerminated(t) == t.pc = "done" /\ t.result.set

\* C20: no task makes more fetch attempts than its budget, and (every step
\* that can be taken being eventually taken) the run reaches its end and
\* every task a terminal state, and stays there.
C20_RunTerminates ==
    /\ [](\A i \in DOMAIN task : Len(task[i].log) <= AttemptBudget)
    /\ <>[](RunEnded /\ \A i \in DOMAIN task : TaskTerminated(task[i]))

====
